---------------------------- MODULE Spec2Model ----------------------------
(***************************************************************************)
(* Model of contrib/run.py of netcanv: a harness that builds the program,  *)
(* starts one host process, reads the host's stderr line by line, starts   *)
(* one joiner (client) task for every line announcing a room ID, and       *)
(* finally gathers the joiner tasks.                                       *)
(*                                                                         *)
(* Text is modelled as sequences of one-character strings.  A pipe is the  *)
(* sequence of bytes written by a child and not yet read; InvalidByte      *)
(* stands for a byte that is not valid UTF-8.  asyncio is modelled as      *)
(* cooperative single-threaded tasks: one action is the code a task runs   *)
(* between two suspension points.                                          *)
(***************************************************************************)
EXTENDS Integers, Sequences, FiniteSets, TLC

(* ------------------------------ bounds -------------------------------- *)
\* number of writes to stderr the child processes make in one run, all together
MaxWrites == 2

(* --------------------------- program text ------------------------------ *)
HOST_COLOR == "ESC[94m"
CLIENT_COLOR == "ESC[93m"
ENDC == "ESC[0m"

DebugPath == "./target/debug/netcanv"
ReleasePath == "./target/release/netcanv"

\* "got free room ID"
Marker == <<"g","o","t"," ","f","r","e","e"," ","r","o","o","m"," ","I","D">>
\* "r:"
RColon == <<"r", ":">>
NL == "\n"
\* a byte that .decode() rejects
InvalidByte == "0xFF"
\* the characters str.strip() removes
Whitespace == {" ", "\n", "\t", "\r"}

(* ------------------------ Python string methods ------------------------ *)
\* sub starts at the 0-based index i of s
StartsAt(s, sub, i) ==
    /\ i + Len(sub) <= Len(s)
    /\ \A k \in 1..Len(sub) : s[i + k] = sub[k]

\* str.find(sub): lowest 0-based index of sub in s, or -1
find(s, sub) ==
    IF \E i \in 0..Len(s) : StartsAt(s, sub, i)
    THEN CHOOSE i \in 0..Len(s) :
             /\ StartsAt(s, sub, i)
             /\ \A j \in 0..(i - 1) : ~StartsAt(s, sub, j)
    ELSE -1

\* str.split(sep, 1): at most one split, at the first occurrence of sep
split1(s, sep) ==
    LET i == find(s, sep)
    IN  IF i = -1 THEN <<s>>
        ELSE <<SubSeq(s, 1, i), SubSeq(s, i + Len(sep) + 1, Len(s))>>

\* the number of whitespace characters s starts with
LeadingWhite(s) ==
    CHOOSE n \in 0..Len(s) :
        /\ \A k \in 1..n : s[k] \in Whitespace
        /\ n < Len(s) => s[n + 1] \notin Whitespace

\* the number of whitespace characters s ends with
TrailingWhite(s) ==
    CHOOSE n \in 0..Len(s) :
        /\ \A k \in (Len(s) - n + 1)..Len(s) : s[k] \in Whitespace
        /\ n < Len(s) => s[Len(s) - n] \notin Whitespace

\* str.strip(): s without the whitespace at its two ends
strip(s) ==
    IF LeadingWhite(s) = Len(s) THEN <<>>
    ELSE SubSeq(s, LeadingWhite(s) + 1, Len(s) - TrailingWhite(s))

\* str.ljust(n): s filled with spaces on the right up to n characters
ljust(s, n) ==
    IF Len(s) >= n THEN s
    ELSE [k \in 1..n |-> IF k <= Len(s) THEN s[k] ELSE " "]

\* bytes.decode(): fails on a byte that is not valid UTF-8
Decodable(b) == \A i \in 1..Len(b) : b[i] # InvalidByte

\* what print() writes for log(who, color, line): one string
log_PrefixOnly(who, color, line) == <<color>> \o ljust(who, 8) \o <<ENDC, " ">>
log(who, color, line) == <<color>> \o ljust(who, 8) \o <<ENDC, " ">> \o line

HOST == <<"H","O","S","T">>
CLIENT == <<"C","L","I","E","N","T">>

(* --------------------------- StreamReader ------------------------------ *)
\* readline() returns once the buffer holds a newline or the stream ended
ReadlineReady(buf, open) == find(buf, <<NL>>) # -1 \/ ~open

\* the bytes readline() returns: through the first newline, or what is left
ReadlineData(buf) ==
    LET i == find(buf, <<NL>>)
    IN  IF i # -1 THEN SubSeq(buf, 1, i + 1) ELSE buf

ReadlineRest(buf) == SubSeq(buf, Len(ReadlineData(buf)) + 1, Len(buf))

(* ------------------------------ inputs --------------------------------- *)
\* command lines of the harness (what follows the script name)
RestArgs == { <<>>, <<"--">>, <<"--release">>, <<"--", "--release">> }

\* lines a host may print
LinePlain == <<"u","s","e","r",":"," ","h","i",NL>>
LineA1 == Marker \o <<" ","r",":"," ","A","1"," ",NL>>
LineB2 == Marker \o <<" ","r",":","B","2",NL>>
LineNoId == Marker \o <<NL>>
LineEarlyR == <<"p","e","e","r",":"," ">> \o Marker \o <<" ","r",":","A","1",NL>>
LineBlank == <<NL>>
LineBad == <<InvalidByte, NL>>
\* a write that ends without a newline: the marker and "r:" with nothing after
PartialLine == Marker \o <<" ","r",":">>

\* what the host process may write to stderr with one write
HostChunks ==
    { LinePlain, LineA1, LineB2, LineNoId, LineEarlyR, LineBlank, LineBad,
      PartialLine }

\* what a joiner process may write to stderr with one write
ClientChunks == { <<"o","k",NL>>, LineB2, LineBad, LineBlank, PartialLine }

\* the most joiner tasks a run can create: every write completes at most one
\* line, and every line creates at most one task
MaxTasks == MaxWrites

\* process 0 is the host, process j > 0 belongs to the j-th joiner task
Procs == 0..MaxTasks
Chunks(p) == IF p = 0 THEN HostChunks ELSE ClientChunks

(* ------------------------------- state --------------------------------- *)
VARIABLES
    orch,             \* where the main control flow is
    buildResult,      \* outcome of "cargo build": "pending", "ok", "nonzero", "notfound"
    executable_path,  \* the module-level executable_path
    spawned,          \* argument lists of the child processes started, in order
    proc,             \* proc[p]: "none", "running", "exited"
    stderrOpen,       \* stderrOpen[p]: the child still holds its stderr open
    pipe,             \* pipe[p]: bytes written to stderr and not yet read
    emitted,          \* number of writes the children have made so far
    tasks,            \* run_host's list of joiner tasks
    console,          \* what has been printed, one element per print() call
    hostPass,         \* the statements run_host ran in its latest loop pass, in order
    exc               \* <<type, function>> of the exception that ended the run

vars == <<orch, buildResult, executable_path, spawned, proc, stderrOpen,
          pipe, emitted, tasks, console, hostPass, exc>>

NoExc == <<"none", "none">>
Ended == {"Done", "Failed"}

Init ==
    /\ orch = "Building"
    /\ buildResult = "pending"
    /\ executable_path = DebugPath
    /\ spawned = <<>>
    /\ proc = [p \in Procs |-> "none"]
    /\ stderrOpen = [p \in Procs |-> FALSE]
    /\ pipe = [p \in Procs |-> <<>>]
    /\ emitted = 0
    /\ tasks = <<>>
    /\ console = <<>>
    /\ hostPass = <<>>
    /\ exc = NoExc

(* ------------------------- the child processes -------------------------- *)
\* a running child writes one more chunk to its stderr
Emit(p, chunk) ==
    /\ orch \notin Ended
    /\ proc[p] = "running" /\ stderrOpen[p]
    /\ emitted < MaxWrites
    /\ pipe' = [pipe EXCEPT ![p] = @ \o chunk]
    /\ emitted' = emitted + 1
    /\ UNCHANGED <<hostPass, orch, buildResult, executable_path, spawned, proc,
                   stderrOpen, tasks, console, exc>>

\* a running child closes its stderr and keeps running
CloseStderr(p) ==
    /\ orch \notin Ended
    /\ proc[p] = "running" /\ stderrOpen[p]
    /\ stderrOpen' = [stderrOpen EXCEPT ![p] = FALSE]
    /\ UNCHANGED <<hostPass, orch, buildResult, executable_path, spawned, proc, pipe,
                   emitted, tasks, console, exc>>

\* a running child exits; the write end of its stderr pipe closes with it
Exit(p) ==
    /\ orch \notin Ended
    /\ proc[p] = "running"
    /\ proc' = [proc EXCEPT ![p] = "exited"]
    /\ stderrOpen' = [stderrOpen EXCEPT ![p] = FALSE]
    /\ UNCHANGED <<hostPass, orch, buildResult, executable_path, spawned, pipe,
                   emitted, tasks, console, exc>>

(* ------------------------------ __main__ -------------------------------- *)
\* rest with a leading "--" removed
StripSeparator(rest) ==
    IF Len(rest) > 0 /\ rest[1] = "--" THEN Tail(rest) ELSE rest

\* the script body up to asyncio.run: pick the executable, run cargo build
Main(rest, outcome) ==
    /\ orch = "Building"
    /\ executable_path' =
          IF \E i \in 1..Len(StripSeparator(rest)) :
                 StripSeparator(rest)[i] = "--release"
          THEN ReleasePath ELSE executable_path
    /\ buildResult' = outcome
    /\ IF outcome = "notfound"
       THEN orch' = "Failed" /\ exc' = <<"FileNotFoundError", "__main__">>
       ELSE orch' = "HostStarting" /\ exc' = exc
    /\ UNCHANGED <<hostPass, spawned, proc, stderrOpen, pipe, emitted, tasks, console>>

(* ------------------------------ run_host -------------------------------- *)
HostCmd == <<executable_path, "host-room">>

\* tasks = []; host = await create_subprocess_exec(...)
HostLaunch_Swallow(ok) ==
    /\ orch = "HostStarting"
    /\ spawned' = Append(spawned, HostCmd)
    /\ IF ok
       THEN /\ proc' = [proc EXCEPT ![0] = "running"]
            /\ stderrOpen' = [stderrOpen EXCEPT ![0] = TRUE]
            /\ orch' = "HostRunning"
            /\ exc' = exc
       ELSE /\ orch' = "Draining"
            /\ exc' = exc
            /\ UNCHANGED <<proc, stderrOpen>>
    /\ UNCHANGED <<hostPass, buildResult, executable_path, pipe, emitted, tasks, console>>
HostLaunch(ok) ==
    /\ orch = "HostStarting"
    /\ spawned' = Append(spawned, HostCmd)
    /\ IF ok
       THEN /\ proc' = [proc EXCEPT ![0] = "running"]
            /\ stderrOpen' = [stderrOpen EXCEPT ![0] = TRUE]
            /\ orch' = "HostRunning"
            /\ exc' = exc
       ELSE /\ orch' = "Raised"
            /\ exc' = <<"FileNotFoundError", "run_host">>
            /\ UNCHANGED <<proc, stderrOpen>>
    /\ UNCHANGED <<hostPass, buildResult, executable_path, pipe, emitted, tasks, console>>

NewTask(id) == [room_id |-> id, state |-> "pending", error |-> "none"]

\* line 38: the line announces a room ID
IsTrigger_Always(line) == TRUE
IsTrigger(line) == find(line, Marker) # -1

\* lines 33-40 for the bytes readline() returned, statement by statement
HostLoopBody_QuietTrigger(data) ==
    IF ~Decodable(data)
    THEN /\ orch' = "Raised" /\ exc' = <<"UnicodeDecodeError", "run_host">>
         /\ hostPass' = <<"readline", "decode">>
         /\ UNCHANGED <<console, tasks>>
    ELSE IF data = <<>>
    THEN /\ orch' = "Draining"
         /\ hostPass' = <<"readline", "decode", "break">>
         /\ UNCHANGED <<console, tasks, exc>>
    ELSE /\ console' = IF IsTrigger(data) THEN console
                     ELSE Append(console, log(HOST, HOST_COLOR, data))
         /\ IF IsTrigger(data)
            THEN \E parts \in {split1(data, RColon)} :
                   IF Len(parts) < 2
                   THEN /\ orch' = "Raised"
                        /\ exc' = <<"IndexError", "run_host">>
                        /\ hostPass' = <<"readline", "decode", "log", "find",
                                         "split">>
                        /\ UNCHANGED tasks
                   ELSE /\ \E id \in {strip(parts[2])} :
                              tasks' = Append(tasks, NewTask(id))
                        /\ hostPass' = <<"readline", "decode", "log", "find",
                                         "split", "strip", "create_task">>
                        /\ UNCHANGED <<orch, exc>>
            ELSE /\ hostPass' = <<"readline", "decode", "log", "find">>
                 /\ UNCHANGED <<orch, tasks, exc>>
HostLoopBody(data) ==
    IF ~Decodable(data)
    THEN /\ orch' = "Raised" /\ exc' = <<"UnicodeDecodeError", "run_host">>
         /\ hostPass' = <<"readline", "decode">>
         /\ UNCHANGED <<console, tasks>>
    ELSE IF data = <<>>
    THEN /\ orch' = "Draining"
         /\ hostPass' = <<"readline", "decode", "break">>
         /\ UNCHANGED <<console, tasks, exc>>
    ELSE /\ console' = Append(console, log(HOST, HOST_COLOR, data))
         /\ IF IsTrigger(data)
            THEN \E parts \in {split1(data, RColon)} :
                   IF Len(parts) < 2
                   THEN /\ orch' = "Raised"
                        /\ exc' = <<"IndexError", "run_host">>
                        /\ hostPass' = <<"readline", "decode", "log", "find",
                                         "split">>
                        /\ UNCHANGED tasks
                   ELSE /\ \E id \in {strip(parts[2])} :
                              tasks' = Append(tasks, NewTask(id))
                        /\ hostPass' = <<"readline", "decode", "log", "find",
                                         "split", "strip", "create_task">>
                        /\ UNCHANGED <<orch, exc>>
            ELSE /\ hostPass' = <<"readline", "decode", "log", "find">>
                 /\ UNCHANGED <<orch, tasks, exc>>

\* one pass of the while loop of run_host, from readline() returning
HostReadLine_AwaitsClient ==
    /\ orch = "HostRunning"
    /\ ReadlineReady(pipe[0], stderrOpen[0])
    /\ \A j \in 1..Len(tasks) : tasks[j].state \in {"done", "failed"}
    /\ pipe' = [pipe EXCEPT ![0] = ReadlineRest(pipe[0])]
    /\ \E data \in {ReadlineData(pipe[0])} : HostLoopBody(data)
    /\ UNCHANGED <<buildResult, executable_path, spawned, proc, stderrOpen,
                   emitted>>
HostReadLine ==
    /\ orch = "HostRunning"
    /\ ReadlineReady(pipe[0], stderrOpen[0])
    /\ pipe' = [pipe EXCEPT ![0] = ReadlineRest(pipe[0])]
    /\ \E data \in {ReadlineData(pipe[0])} : HostLoopBody(data)
    /\ UNCHANGED <<buildResult, executable_path, spawned, proc, stderrOpen,
                   emitted>>

\* await asyncio.gather(*tasks)
Gather ==
    /\ orch = "Draining"
    /\ IF \E j \in 1..Len(tasks) : tasks[j].state = "failed"
       THEN /\ orch' = "Raised"
            /\ \E j \in 1..Len(tasks) :
                   tasks[j].state = "failed"
                   /\ exc' = <<tasks[j].error, "run_client">>
       ELSE /\ \A j \in 1..Len(tasks) : tasks[j].state = "done"
            /\ orch' = "Done"
            /\ exc' = exc
    /\ UNCHANGED <<hostPass, buildResult, executable_path, spawned, proc, stderrOpen,
                   pipe, emitted, tasks, console>>

(* ----------------------------- run_client ------------------------------- *)
ClientCmd(room_id) == <<executable_path, "join-room", "-r", room_id>>

LoopRunning == orch \in {"HostRunning", "Draining", "Raised"}

\* the first step of task j: cmd = [...]; client = await create_subprocess_exec(...)
\* The event loop starts tasks in the order they were created.
ClientStart_AnyOrder(j, ok) ==
    /\ LoopRunning
    /\ j \in 1..Len(tasks)
    /\ tasks[j].state = "pending"
    /\ spawned' = Append(spawned, ClientCmd(tasks[j].room_id))
    /\ IF ok
       THEN /\ proc' = [proc EXCEPT ![j] = "running"]
            /\ stderrOpen' = [stderrOpen EXCEPT ![j] = TRUE]
            /\ tasks' = [tasks EXCEPT ![j].state = "reading"]
       ELSE /\ tasks' = [tasks EXCEPT ![j].state = "failed",
                                      ![j].error = "FileNotFoundError"]
            /\ UNCHANGED <<proc, stderrOpen>>
    /\ UNCHANGED <<hostPass, orch, buildResult, executable_path, pipe, emitted,
                   console, exc>>
ClientStart_Retry(j, ok) ==
    /\ LoopRunning
    /\ j \in 1..Len(tasks)
    /\ tasks[j].state = "pending"
    /\ \A i \in 1..(j - 1) : tasks[i].state # "pending"
    /\ spawned' = Append(spawned, ClientCmd(tasks[j].room_id))
    /\ IF ok
       THEN /\ proc' = [proc EXCEPT ![j] = "running"]
            /\ stderrOpen' = [stderrOpen EXCEPT ![j] = TRUE]
            /\ tasks' = [tasks EXCEPT ![j].state = "reading"]
       ELSE /\ Len(tasks) < MaxTasks
            /\ tasks' = Append([tasks EXCEPT ![j].state = "failed",
                                             ![j].error = "FileNotFoundError"],
                               NewTask(tasks[j].room_id))
            /\ UNCHANGED <<proc, stderrOpen>>
    /\ UNCHANGED <<hostPass, orch, buildResult, executable_path, pipe, emitted,
                   console, exc>>
ClientStart(j, ok) ==
    /\ LoopRunning
    /\ j \in 1..Len(tasks)
    /\ tasks[j].state = "pending"
    /\ \A i \in 1..(j - 1) : tasks[i].state # "pending"
    /\ spawned' = Append(spawned, ClientCmd(tasks[j].room_id))
    /\ IF ok
       THEN /\ proc' = [proc EXCEPT ![j] = "running"]
            /\ stderrOpen' = [stderrOpen EXCEPT ![j] = TRUE]
            /\ tasks' = [tasks EXCEPT ![j].state = "reading"]
       ELSE /\ tasks' = [tasks EXCEPT ![j].state = "failed",
                                      ![j].error = "FileNotFoundError"]
            /\ UNCHANGED <<proc, stderrOpen>>
    /\ UNCHANGED <<hostPass, orch, buildResult, executable_path, pipe, emitted,
                   console, exc>>

\* lines 22-23: the task after readline() returned nothing
AfterEof_Continue(t) == t
AfterEof(t) == [t EXCEPT !.state = "done"]

\* one pass of the while loop of run_client, from readline() returning
ClientReadLine_Detects(j) ==
    /\ LoopRunning
    /\ j \in 1..Len(tasks)
    /\ tasks[j].state = "reading"
    /\ ReadlineReady(pipe[j], stderrOpen[j])
    /\ \E data \in {ReadlineData(pipe[j])} :
           /\ pipe' = [pipe EXCEPT ![j] = ReadlineRest(pipe[j])]
           /\ IF ~Decodable(data)
              THEN /\ tasks' = [tasks EXCEPT ![j].state = "failed",
                                             ![j].error = "UnicodeDecodeError"]
                   /\ UNCHANGED console
              ELSE IF data = <<>>
              THEN /\ tasks' = [tasks EXCEPT ![j] = AfterEof(@)]
                   /\ UNCHANGED console
              ELSE /\ console' = Append(console, log(CLIENT, CLIENT_COLOR, data))
                   /\ IF IsTrigger(data) /\ Len(tasks) < MaxTasks
                      THEN tasks' = Append(tasks, NewTask(<<>>))
                      ELSE UNCHANGED tasks
    /\ UNCHANGED <<hostPass, orch, buildResult, executable_path, spawned, proc,
                   stderrOpen, emitted, exc>>
ClientReadLine(j) ==
    /\ LoopRunning
    /\ j \in 1..Len(tasks)
    /\ tasks[j].state = "reading"
    /\ ReadlineReady(pipe[j], stderrOpen[j])
    /\ \E data \in {ReadlineData(pipe[j])} :
           /\ pipe' = [pipe EXCEPT ![j] = ReadlineRest(pipe[j])]
           /\ IF ~Decodable(data)
              THEN /\ tasks' = [tasks EXCEPT ![j].state = "failed",
                                             ![j].error = "UnicodeDecodeError"]
                   /\ UNCHANGED console
              ELSE IF data = <<>>
              THEN /\ tasks' = [tasks EXCEPT ![j] = AfterEof(@)]
                   /\ UNCHANGED console
              ELSE /\ console' = Append(console, log(CLIENT, CLIENT_COLOR, data))
                   /\ UNCHANGED tasks
    /\ UNCHANGED <<hostPass, orch, buildResult, executable_path, spawned, proc,
                   stderrOpen, emitted, exc>>

(* ----------------------------- asyncio.run ------------------------------ *)
\* run_host raised: asyncio.run lets the steps already scheduled run (every
\* created task has started by then), cancels the tasks that have not
\* finished, closes the loop and re-raises
LoopShutdown ==
    /\ orch = "Raised"
    /\ \A j \in 1..Len(tasks) : tasks[j].state # "pending"
    /\ tasks' = [j \in 1..Len(tasks) |->
                   IF tasks[j].state = "reading"
                   THEN [tasks[j] EXCEPT !.state = "cancelled"]
                   ELSE tasks[j]]
    /\ orch' = "Failed"
    /\ UNCHANGED <<hostPass, buildResult, executable_path, spawned, proc, stderrOpen,
                   pipe, emitted, console, exc>>

(* --------------------------- specification ------------------------------ *)
Next ==
    \/ \E rest \in RestArgs, outcome \in {"ok", "nonzero", "notfound"} :
           Main(rest, outcome)
    \/ \E ok \in BOOLEAN : HostLaunch(ok)
    \/ HostReadLine
    \/ Gather
    \/ \E j \in 1..MaxTasks, ok \in BOOLEAN : ClientStart(j, ok)
    \/ \E j \in 1..MaxTasks : ClientReadLine(j)
    \/ LoopShutdown
    \/ \E p \in Procs, chunk \in HostChunks \cup ClientChunks :
           chunk \in Chunks(p) /\ Emit(p, chunk)
    \/ \E p \in Procs : CloseStderr(p)
    \/ \E p \in Procs : Exit(p)

Spec == Init /\ [][Next]_vars

\* The event loop runs every step that is ready (its ready queue is first in,
\* first out), and every child process that runs exits at some time.
Fairness ==
    /\ WF_vars(\E rest \in RestArgs, outcome \in {"ok", "nonzero", "notfound"} :
                  Main(rest, outcome))
    /\ WF_vars(\E ok \in BOOLEAN : HostLaunch(ok))
    /\ WF_vars(HostReadLine)
    /\ WF_vars(Gather)
    /\ WF_vars(LoopShutdown)
    /\ \A j \in 1..MaxTasks :
          /\ WF_vars(\E ok \in BOOLEAN : ClientStart(j, ok))
          /\ WF_vars(ClientReadLine(j))
    /\ \A p \in Procs : WF_vars(Exit(p))

FairSpec == Spec /\ Fairness

TypeOK ==
    /\ orch \in {"Building", "HostStarting", "HostRunning", "Draining",
                  "Raised", "Done", "Failed"}
    /\ buildResult \in {"pending", "ok", "nonzero", "notfound"}
    /\ executable_path \in {DebugPath, ReleasePath}
    /\ Len(tasks) <= MaxTasks
    /\ emitted \in 0..MaxWrites
    /\ \A p \in Procs : proc[p] \in {"none", "running", "exited"}
    /\ Len(hostPass) <= 7
    /\ \A i \in 1..Len(hostPass) :
          hostPass[i] \in {"readline", "decode", "break", "log", "find",
                           "split", "strip", "create_task"}
    /\ \A j \in 1..Len(tasks) :
          tasks[j].state \in {"pending", "reading", "done", "failed", "cancelled"}

(* ------------------- vocabulary of the properties ----------------------- *)
\* sub occurs in s at position i (counted from 1)
OccursAt(s, sub, i) ==
    /\ i >= 1 /\ i + Len(sub) - 1 <= Len(s)
    /\ \A k \in 1..Len(sub) : s[i + k - 1] = sub[k]

Contains(s, sub) == \E i \in 1..Len(s) : OccursAt(s, sub, i)

AllWhite(s) == \A i \in 1..Len(s) : s[i] \in Whitespace

\* t is s without the whitespace at its two ends
Trimmed(t, s) ==
    /\ t = <<>> \/ (t[1] \notin Whitespace /\ t[Len(t)] \notin Whitespace)
    /\ \E a \in 0..Len(s) : \E b \in 0..(Len(s) - a) :
          /\ AllWhite(SubSeq(s, 1, a))
          /\ AllWhite(SubSeq(s, Len(s) - b + 1, Len(s)))
          /\ t = SubSeq(s, a + 1, Len(s) - b)

\* the text of a console entry, after the colour, the 8-column label, the
\* reset and the space
LoggedText(e) == SubSeq(e, 12, Len(e))
IsHostEntry(e) == e[1] = HOST_COLOR
IsClientEntry(e) == e[1] = CLIENT_COLOR
HasMarker(e) == Contains(e, Marker)
IsJoinerCmd(c) == Len(c) = 4 /\ c[2] = "join-room" /\ c[3] = "-r"

\* the host lines printed so far, and those among them with the marker
HostLogged == [k \in 1..Len(SelectSeq(console, IsHostEntry)) |->
                  LoggedText(SelectSeq(console, IsHostEntry)[k])]
TriggerLines == SelectSeq(HostLogged, HasMarker)
\* the joiner command lines started so far
JoinerCmds == SelectSeq(spawned, IsJoinerCmd)

\* t is what follows some "r:" of the line, trimmed
TokenOfLine(t, line) ==
    \E i \in 1..Len(line) :
        /\ OccursAt(line, RColon, i)
        /\ Trimmed(t, SubSeq(line, i + Len(RColon), Len(line)))

\* t is what follows the first "r:" after the first marker of the line, trimmed
TokenAfterMarker(t, line) ==
    \E m \in 1..Len(line) :
        /\ OccursAt(line, Marker, m)
        /\ \A n \in 1..(m - 1) : ~OccursAt(line, Marker, n)
        /\ \E i \in (m + Len(Marker))..Len(line) :
              /\ OccursAt(line, RColon, i)
              /\ \A n \in (m + Len(Marker))..(i - 1) :
                    ~OccursAt(line, RColon, n)
              /\ Trimmed(t, SubSeq(line, i + Len(RColon), Len(line)))

Resolved(j) == tasks[j].state \in {"done", "failed"}

(* ------------------------------ properties ------------------------------ *)
\* C1: when the run has ended, the joiners started are exactly one per host
\* line with the marker, in the order of those lines, each started as
\* "join-room -r <token of its line>".
C1_OneJoinerPerTriggerLine ==
    orch \in Ended =>
        /\ Len(JoinerCmds) = Len(TriggerLines)
        /\ \A k \in 1..Len(JoinerCmds) :
              /\ k <= Len(TriggerLines)
              /\ TokenOfLine(JoinerCmds[k][4], TriggerLines[k])

\* C2: the run never ends while a joiner task of the task list has not run
\* to its end: every task appended was awaited until it finished or failed.
C2_NoExitWhileUnresolved ==
    orch \in Ended => \A j \in 1..Len(tasks) : Resolved(j)

\* C3: after a build that exited non-zero no process is ever launched and
\* the run does not end normally.
C3_BuildFailureLaunchesNothing ==
    buildResult = "nonzero" => spawned = <<>> /\ orch # "Done"

\* C4: the room ID given to every joiner task is the text after the first
\* "r:" that follows the marker of its line, trimmed.
C4_TokenFollowsMarker ==
    \A k \in 1..Len(tasks) :
        /\ k <= Len(TriggerLines)
        /\ TokenAfterMarker(tasks[k].room_id, TriggerLines[k])

\* C6: unless run_host itself raised, the run ends only with every joiner
\* task finished or failed on its own: a joiner's failure cancels no sibling.
C6_JoinerFailureStaysLocal ==
    (orch \in Ended /\ exc[2] \notin {"run_host", "__main__"}) =>
        \A j \in 1..Len(tasks) : Resolved(j)

\* C7: the host's read loop and every joiner task finish only once the
\* process has exited and its stderr is drained.
C7_ResolvedOnlyAfterExit ==
    /\ orch \in {"Draining", "Done"} =>
          proc[0] = "exited" /\ pipe[0] = <<>> /\ ~stderrOpen[0]
    /\ \A j \in 1..Len(tasks) :
          tasks[j].state = "done" =>
              proc[j] = "exited" /\ pipe[j] = <<>> /\ ~stderrOpen[j]

\* C10: undecodable bytes never surface as an error: no UnicodeDecodeError
\* ends the run or a joiner task.
C10_DecodeFailureIsEof ==
    /\ exc[1] # "UnicodeDecodeError"
    /\ \A j \in 1..Len(tasks) : tasks[j].error # "UnicodeDecodeError"

\* C5: host lines without the marker create no task and start no joiner;
\* with no marker line at all there is never a task, the gather of the empty
\* list can return as soon as the read loop has ended, and no joiner error
\* can end the run.
C5_NoTriggerNoJoiner ==
    /\ Len(tasks) <= Len(TriggerLines)
    /\ Len(JoinerCmds) <= Len(tasks)
    /\ TriggerLines = <<>> =>
          /\ tasks = <<>>
          /\ exc[2] # "run_client"
          /\ orch = "Draining" => ENABLED Gather

\* a run that printed host lines, none with the marker, and ended normally
C5_Witness ==
    /\ orch = "Done"
    /\ \E k \in 1..Len(HostLogged) : Contains(HostLogged[k], RColon)
    /\ TriggerLines = <<>>
    /\ JoinerCmds = <<>>

\* C8: whenever the host's readline() has something to return the host loop
\* can take its next pass, whatever the joiner tasks are doing; whenever a
\* joiner's readline() has something to return that joiner can take its next
\* pass, whether the host loop is reading or gathering.
C8_NeverBlockEachOther ==
    /\ (orch = "HostRunning" /\ ReadlineReady(pipe[0], stderrOpen[0]))
          => ENABLED HostReadLine
    /\ \A j \in 1..Len(tasks) :
          ( /\ orch \in {"HostRunning", "Draining"}
            /\ tasks[j].state = "reading"
            /\ ReadlineReady(pipe[j], stderrOpen[j]) )
          => ENABLED ClientReadLine(j)

\* the host has a line to read while one joiner has not started and another
\* sits in readline() with nothing to read
C8_Witness ==
    /\ orch = "HostRunning"
    /\ pipe[0] # <<>> /\ ReadlineReady(pipe[0], stderrOpen[0])
    /\ \E j \in 1..Len(tasks) :
          \/ tasks[j].state = "pending"
          \/ tasks[j].state = "reading" /\ pipe[j] = <<>> /\ stderrOpen[j]

C11_DetectBeforeLog ==
    /\ \A i, j \in 1..Len(hostPass) :
          (hostPass[i] \in {"find", "create_task"} /\ hostPass[j] = "log")
              => i < j
    /\ \A i, j \in 1..Len(hostPass) :
          (hostPass[i] = "log" /\ hostPass[j] = "log") => i = j
    /\ (\E i \in 1..Len(hostPass) : hostPass[i] = "find")
          => \E j \in 1..Len(hostPass) : hostPass[j] = "log"

\* what log() prints for a line read from the stderr of process p
Logged(p, line) ==
    IF p = 0 THEN log(HOST, HOST_COLOR, line)
    ELSE log(CLIENT, CLIENT_COLOR, line)

\* a stream's buffer changes only by a write at its end or by readline()
\* taking its oldest line, and the console grows only at its end, by the
\* line readline() has just taken from one stream
C12_Fifo ==
    /\ \A p \in Procs :
          pipe'[p] # pipe[p] =>
              \/ \E chunk \in Chunks(p) : pipe'[p] = pipe[p] \o chunk
              \/ /\ pipe[p] = ReadlineData(pipe[p]) \o pipe'[p]
                 /\ \/ ~Decodable(ReadlineData(pipe[p])) /\ console' = console
                    \/ console' = Append(console,
                                         Logged(p, ReadlineData(pipe[p])))
    /\ console' # console =>
          \E p \in Procs :
              /\ ReadlineData(pipe[p]) # <<>>
              /\ pipe'[p] = ReadlineRest(pipe[p])
              /\ console' = Append(console, Logged(p, ReadlineData(pipe[p])))

\* C12: the lines of one process are printed in the order the process wrote
\* them, however the reads of the processes interleave; the host loop has
\* finished with a line (printed it and created its task) before it reads
\* the next, and the joiners are started in the order of their marker lines.
C12_OrderPreserved ==
    /\ [][C12_Fifo]_vars
    /\ [](orch = "HostRunning" =>
             /\ Len(tasks) = Len(TriggerLines)
             /\ hostPass # <<>> =>
                   hostPass[Len(hostPass)] \in {"find", "create_task"})
    /\ [](\A k \in 1..Len(JoinerCmds) :
             /\ k <= Len(tasks) /\ k <= Len(TriggerLines)
             /\ JoinerCmds[k][4] = tasks[k].room_id
             /\ TokenOfLine(JoinerCmds[k][4], TriggerLines[k]))

\* two joiners with different room IDs have been started
C12_Witness ==
    /\ Len(JoinerCmds) = 2
    /\ JoinerCmds[1][4] # JoinerCmds[2][4]
    /\ Len(HostLogged) = 2

\* C13: once the host's read loop has ended (on end of stream or on an
\* exception) the task list is never changed again except for the progress
\* of the tasks in it: no task is added, none removed, no room ID changes;
\* what gather() waits for is one task per marker line the host printed.
C13_TaskSetClosed ==
    /\ [][orch # "HostRunning" =>
             /\ Len(tasks') = Len(tasks)
             /\ \A k \in 1..Len(tasks) : tasks'[k].room_id = tasks[k].room_id]_vars
    /\ [](orch \in {"Draining", "Done"} => Len(tasks) = Len(TriggerLines))

\* the read loop has ended with a task in the list that has not started yet
C13_Witness ==
    /\ orch = "Draining"
    /\ \E k \in 1..Len(tasks) : tasks[k].state = "pending"

\* C14: the room ID of every joiner command line ("-r <room ID>") is not
\* empty and neither starts nor ends with whitespace.
C14_TokenNonEmptyTrimmed ==
    \A k \in 1..Len(JoinerCmds) :
        /\ JoinerCmds[k][4] # <<>>
        /\ JoinerCmds[k][4][1] \notin Whitespace
        /\ JoinerCmds[k][4][Len(JoinerCmds[k][4])] \notin Whitespace

\* C15: a pass of a joiner's read loop only prints the line it read: it
\* creates no task, changes no room ID, starts no process and runs none of
\* the host loop's statements, also when the line holds the marker.
C15_JoinerLinesOnlyLogged ==
    [][\A j \in 1..MaxTasks :
          (pipe'[j] # pipe[j] /\ pipe[j] = ReadlineData(pipe[j]) \o pipe'[j])
          => /\ Len(tasks') = Len(tasks)
             /\ \A k \in 1..Len(tasks) : tasks'[k].room_id = tasks[k].room_id
             /\ spawned' = spawned
             /\ hostPass' = hostPass
             /\ Decodable(ReadlineData(pipe[j])) =>
                   console' = Append(console, log(CLIENT, CLIENT_COLOR,
                                                  ReadlineData(pipe[j])))]_vars

\* a joiner's line with the marker has been printed, and the run has ended
\* with the one joiner the host's line called for
C15_Witness ==
    /\ \E k \in 1..Len(console) :
          IsClientEntry(console[k]) /\ HasMarker(console[k])
    /\ Len(tasks) = 1 /\ Len(JoinerCmds) = 1
    /\ orch = "Done"

\* the host was asked for and no host process came into being
HostLaunchFailed == spawned # <<>> /\ proc[0] = "none"

\* C16: when the launch of the host fails, run_host raises and the run can
\* only end as failed: no task is created, no joiner started, nothing is
\* read from any stream or printed, and the run never ends normally.
C16_HostLaunchFailureIsFatal ==
    HostLaunchFailed =>
        /\ orch \in {"Raised", "Failed"}
        /\ exc[1] # "none" /\ exc[2] = "run_host"
        /\ tasks = <<>> /\ JoinerCmds = <<>>
        /\ console = <<>> /\ hostPass = <<>>
        /\ \A p \in Procs : proc[p] = "none" /\ pipe[p] = <<>>
        /\ orch = "Raised" => ENABLED LoopShutdown

\* the run has ended as failed after the launch of the host failed
C16_Witness ==
    /\ HostLaunchFailed
    /\ orch = "Failed"
    /\ spawned = <<HostCmd>>

\* C17: every print() puts one whole line on the console: the colour, the
\* label filled to 8 columns, the reset, a space and then the text that was
\* read, with no colour code of another write inside it; the writes of the
\* host loop and of the joiner tasks alternate only between such lines.
C17_WholeLines ==
    \A k \in 1..Len(console) :
        /\ Len(console[k]) >= 12
        /\ \/ console[k] = log(HOST, HOST_COLOR, LoggedText(console[k]))
           \/ console[k] = log(CLIENT, CLIENT_COLOR, LoggedText(console[k]))
        /\ \A i \in 12..Len(console[k]) :
              console[k][i] \notin {HOST_COLOR, CLIENT_COLOR, ENDC}

\* a line of the host and a line of a joiner have been printed one after
\* the other
C17_Witness ==
    \E k \in 1..(Len(console) - 1) :
        IsHostEntry(console[k]) /\ IsClientEntry(console[k + 1])

\* the marker line that called for joiner task j is on the console
TriggerLogged(j) ==
    /\ j <= Len(TriggerLines)
    /\ TokenOfLine(tasks[j].room_id, TriggerLines[j])

\* C18: when joiner task j launches its process, and when it prints a line
\* of that process, the host's marker line that called for it has already
\* been printed; so every CLIENT line on the console comes after a HOST line
\* with the marker.
C18_TriggerLoggedBeforeJoiner ==
    /\ [][\A j \in 1..Len(tasks) :
             /\ (tasks[j].state = "pending" /\ tasks'[j].state # "pending")
                   => TriggerLogged(j)
             /\ (tasks[j].state = "reading" /\ pipe'[j] # pipe[j]
                    /\ console' # console)
                   => TriggerLogged(j)]_vars
    /\ [](\A i \in 1..Len(console) :
             IsClientEntry(console[i]) =>
                 \E h \in 1..(i - 1) :
                     IsHostEntry(console[h]) /\ HasMarker(console[h]))

\* a joiner was started for a marker line and a line of it was printed
\* right after that marker line
C18_Witness ==
    /\ Len(JoinerCmds) >= 1
    /\ \E k \in 1..(Len(console) - 1) :
          /\ IsHostEntry(console[k]) /\ HasMarker(console[k])
          /\ IsClientEntry(console[k + 1])

\* C19: a read loop ends only when readline() returns the end of the stream:
\* the host loop has not ended unless its last pass was the one that found
\* the stream empty and broke out, and a joiner whose process was started
\* has not left its loop unless it finished on the end of the stream.
C19_OnlyEofEndsLoop ==
    /\ (proc[0] # "none" /\ orch # "HostRunning")
          => hostPass = <<"readline", "decode", "break">>
    /\ \A j \in 1..Len(tasks) :
          (proc[j] # "none" /\ tasks[j].state # "reading")
              => tasks[j].state = "done"

=============================================================================
